---- MODULE Spec2Model ----
(***************************************************************************)
(* A model of the Sudoku game component of src/sudoku-game.tsx: the board  *)
(* generator, the puzzle carver, the constraint checks, the hint and the   *)
(* session state held in the component's React state.                      *)
(*                                                                         *)
(* A Board is a function [0..8 -> [0..8 -> 0..9]], indexed as the source   *)
(* indexes it (board[row][col]); 0 is an empty cell.  A Cell is <<row,     *)
(* col>>.  Math.random() is modelled as a 16-bit linear congruential       *)
(* generator whose state is threaded through the functions that draw from  *)
(* it; the state a handler starts from is an input of its action, drawn    *)
(* from a bounded set of seeds.                                            *)
(***************************************************************************)
EXTENDS Integers, Sequences, FiniteSets, TLC

VARIABLES
  selectedCell,   \* useState<Cell | null>(null)          (line 10)
  gameBoard,      \* useState<Board>([])                  (line 11)
  originalBoard,  \* useState<Board>([])                  (line 12)
  completed,      \* useState<boolean>(false)             (line 13)
  difficulty,     \* useState<Difficulty>('medium')       (line 14)
  gameStarted,    \* useState<boolean>(false)             (line 15)
  timer,          \* useState<number>(0)                  (line 16)
  timerRunning,   \* useState<boolean>(false)             (line 17)
  invalidCells,   \* useState<Cell[]>([])                 (line 18)
  call,           \* history: the last operation invoked, its inputs and result
  used            \* history: how much of each bounded input has been spent

vars == <<selectedCell, gameBoard, originalBoard, completed, difficulty,
          gameStarted, timer, timerRunning, invalidCells, call, used>>

session == <<selectedCell, gameBoard, originalBoard, completed, difficulty,
             gameStarted, timer, timerRunning, invalidCells>>

(***************************************************************************)
(* Bounds of the model.                                                    *)
(***************************************************************************)
\* Seeds of the random source a session's handlers may start from.
NumSeeds == 2
\* The first MaxFreeHints hints of a session draw any of these seeds; the
\* hints after them draw the seed the session's startNewGame drew.
MaxFreeHints == 1
\* The player clicks only the first MaxClick editable cells and the first
\* MaxClick given cells of the puzzle, in row-major order.
MaxClick == 1
\* The timer is followed up to MaxTimer seconds.
MaxTimer == 1
\* The player presses the pad buttons 1..MaxPadNum and the button of the
\* number that solves the selected cell.
MaxPadNum == 2
\* The checks are run alone on boards that differ from a generated, a
\* carved or the empty board by at most MaxEdits cells, each in the first
\* EditSpan rows and columns and set to one of 0..MaxEditNum.
MaxEdits == 2
EditSpan == 3
MaxEditNum == 2
\* Seeds of the random source the generator and the carver are run on alone.
NumGenSeeds == 24
\* The loops of solveBoard and createPlayableBoard are run for at most
\* 2^SolveFuel and 2^CarveFuel iterations.
SolveFuel == 20
CarveFuel == 10

Null == "null"
Idx == 0..8
Cells == Idx \X Idx
Difficulties == {"easy", "medium", "hard", "expert"}

(***************************************************************************)
(* The random source.                                                      *)
(***************************************************************************)
\* One step of the generator behind Math.random(): the next 16-bit state.
NextRand(rng) == (rng * 25173 + 13849) % 65536

\* Math.floor(Math.random() * n), for the state rng the draw produced.
RandInt(rng, n) == (rng * n) \div 65536

\* The state of the random source that seed number s stands for.
SeedValue(s) == (s * 7919 + 12345) % 65536

(***************************************************************************)
(* Boards.                                                                 *)
(***************************************************************************)
\* Array(9).fill(null).map(() => Array(9).fill(0))
EmptyBoard == [row \in Idx |-> [col \in Idx |-> 0]]

\* board[row][col] = num
SetCell(board, row, col, num) == [board EXCEPT ![row][col] = num]

\* A faulty isValidPlacement: the column is not checked.
isValidPlacementNoColumn(board, row, col, num) ==
  /\ \A i \in Idx : board[row][i] # num
  /\ \A i \in 0..2 : \A j \in 0..2 :
        board[(row \div 3) * 3 + i][(col \div 3) * 3 + j] # num

\* A faulty isValidPlacement: the 3x3 box is not checked.
isValidPlacementNoBox(board, row, col, num) ==
  /\ \A i \in Idx : board[row][i] # num
  /\ \A i \in Idx : board[i][col] # num

\* Check if placing a number is valid: the row, the column and the 3x3 box
\* of (row, col) are scanned whole, the cell (row, col) included.
isValidPlacement(board, row, col, num) ==
  LET boxRow == (row \div 3) * 3
      boxCol == (col \div 3) * 3
  IN  /\ \A i \in Idx : board[row][i] # num
      /\ \A i \in Idx : board[i][col] # num
      /\ \A i \in 0..2 : \A j \in 0..2 : board[boxRow + i][boxCol + j] # num

\* Find an empty cell in the board: the first in row-major order, or null.
findEmptyCell(board) ==
  LET rows == {row \in Idx : \E col \in Idx : board[row][col] = 0}
      row == CHOOSE r \in rows : \A q \in rows : r <= q
      cols == {col \in Idx : board[row][col] = 0}
      col == CHOOSE c \in cols : \A q \in cols : c <= q
  IN  IF rows = {} THEN Null ELSE <<row, col>>

(***************************************************************************)
(* solveBoard.  The source recurses once per empty cell (up to 54 deep),   *)
(* which is deeper than the evaluator can nest, so the recursion is run    *)
(* here on an explicit call stack: `stack` holds the emptyCell of every    *)
(* active solveBoard call, outermost first, and `num` is the loop          *)
(* variable of the innermost call.  The loop variable of a suspended call  *)
(* is the number it placed in its cell, board[row][col].  `ret` is         *)
(* "running" until the outermost call returns, then "true" or "false".     *)
(***************************************************************************)
\* The call solveBoard(board) begins: findEmptyCell, return true if none,
\* else start the loop at num = 1.
SolveCall(board, stack) ==
  LET emptyCell == findEmptyCell(board)
  IN  IF emptyCell = Null
      THEN [board |-> board, stack |-> <<>>, num |-> 0, ret |-> "true"]
      ELSE [board |-> board, stack |-> Append(stack, emptyCell),
            num |-> 1, ret |-> "running"]

\* One iteration of the loop `for (num = 1; num <= 9; num++)` of the
\* innermost call: place num and recurse if the placement is valid; after
\* num = 9 return false, upon which the caller resets its cell to 0
\* (backtrack) and goes on with its next num.  A call that returns true
\* makes every caller return true at once.
SolveStep(s) ==
  LET depth == Len(s.stack)
      row == s.stack[depth][1]
      col == s.stack[depth][2]
      prow == s.stack[depth - 1][1]
      pcol == s.stack[depth - 1][2]
  IN  IF s.num > 9
      THEN IF depth = 1
           THEN [s EXCEPT !.stack = <<>>, !.num = 0, !.ret = "false"]
           ELSE [board |-> SetCell(s.board, prow, pcol, 0),
                 stack |-> SubSeq(s.stack, 1, depth - 1),
                 num |-> s.board[prow][pcol] + 1,
                 ret |-> "running"]
      ELSE IF isValidPlacement(s.board, row, col, s.num)
           THEN SolveCall(SetCell(s.board, row, col, s.num), s.stack)
           ELSE [s EXCEPT !.num = s.num + 1]

\* Up to 2^k iterations of SolveStep, stopping when the outermost call has
\* returned.
RECURSIVE SolveRun(_, _)
SolveRun(s, k) ==
  IF s.ret # "running" THEN s
  ELSE IF k = 0 THEN SolveStep(s)
  ELSE SolveRun(SolveRun(s, k - 1), k - 1)

\* Solve the board by backtracking.  The result is what the outermost call
\* returns (ok) and the board it leaves behind.
solveBoard(board) ==
  LET r == SolveRun(SolveCall(board, <<>>), SolveFuel)
  IN  [ok |-> r.ret = "true", done |-> r.ret # "running", board |-> r.board]

\* const nums = [1, 2, 3, 4, 5, 6, 7, 8, 9], indexed from 0.
Nums == [k \in Idx |-> k + 1]

\* The Fisher-Yates shuffle of fillBox: for i = 8 down to 1, swap nums[i]
\* with nums[j], j = floor(random * (i + 1)).
RECURSIVE Shuffle(_, _, _)
Shuffle(nums, i, rng) ==
  IF i = 0 THEN [nums |-> nums, rng |-> rng]
  ELSE Shuffle([nums EXCEPT ![i] = nums[RandInt(NextRand(rng), i + 1)],
                            ![RandInt(NextRand(rng), i + 1)] = nums[i]],
               i - 1, NextRand(rng))

\* board[rowStart + i][colStart + j] = nums[numIndex++], for numIndex = k
\* up to 8.
RECURSIVE WriteBox(_, _, _, _, _)
WriteBox(board, rowStart, colStart, nums, k) ==
  IF k > 8 THEN board
  ELSE WriteBox(SetCell(board, rowStart + (k \div 3), colStart + (k % 3),
                        nums[k]),
                rowStart, colStart, nums, k + 1)

\* Fill a 3x3 box with the shuffled numbers, row by row.
FillShuffled(board, rowStart, colStart, s) ==
  [board |-> WriteBox(board, rowStart, colStart, s.nums, 0), rng |-> s.rng]

fillBox(board, rowStart, colStart, rng) ==
  FillShuffled(board, rowStart, colStart, Shuffle(Nums, 8, rng))

\* Fill the three diagonal 3x3 boxes.
fillDiagonalBoxes(board, rng) ==
  LET b0 == fillBox(board, 0, 0, rng)
      b3 == fillBox(b0.board, 3, 3, b0.rng)
  IN  fillBox(b3.board, 6, 6, b3.rng)

\* Generate a completed board.  The source returns the board whatever
\* solveBoard returned; ok records that return value.
generateSolvedBoard(rng) ==
  LET d == fillDiagonalBoxes(EmptyBoard, rng)
      r == solveBoard(d.board)
  IN  [board |-> r.board, ok |-> r.ok, done |-> r.done, seeded |-> d.board,
       rng |-> d.rng]

\* The removal count of each difficulty.
cellsToRemove(d) ==
  CASE d = "easy" -> 30
    [] d = "medium" -> 40
    [] d = "hard" -> 50
    [] d = "expert" -> 60

\* A faulty CarveStep: the cell is cleared and counted whether or not it
\* was already 0.
CarveStepNoTest(s) ==
  [s EXCEPT !.board = SetCell(s.board, RandInt(NextRand(s.rng), 9),
                              RandInt(NextRand(NextRand(s.rng)), 9), 0),
            !.removed = s.removed + 1,
            !.rng = NextRand(NextRand(s.rng))]

\* One iteration of the removal loop of createPlayableBoard: draw a row
\* and a column, and clear the cell if it is not yet 0.
CarveStep(s) ==
  LET x == NextRand(s.rng)
      y == NextRand(x)
      row == RandInt(x, 9)
      col == RandInt(y, 9)
  IN  IF s.board[row][col] # 0
      THEN [s EXCEPT !.board = SetCell(s.board, row, col, 0),
                     !.removed = s.removed + 1, !.rng = y]
      ELSE [s EXCEPT !.rng = y]

\* while (removed < cellsToRemove): up to 2^k iterations of the loop.
RECURSIVE CarveRun(_, _)
CarveRun(s, k) ==
  IF s.removed >= s.quota THEN s
  ELSE IF k = 0 THEN CarveStep(s)
  ELSE CarveRun(CarveRun(s, k - 1), k - 1)

\* Create a playable board by removing some numbers.
createPlayableBoard(solvedBoard, d, rng) ==
  CarveRun([board |-> solvedBoard, removed |-> 0, quota |-> cellsToRemove(d),
            rng |-> rng], CarveFuel)

(***************************************************************************)
(* The checks of a board.                                                  *)
(***************************************************************************)
\* The 27 groups in the order the checks scan them: the rows 0..8, the
\* columns 0..8, then the boxes (boxRow, boxCol) = (0,0), (0,3), ... (6,6);
\* each group lists its nine cells in the order its loop visits them.
Groups ==
  [g \in 1..27 |-> [k \in 1..9 |->
     IF g <= 9 THEN <<g - 1, k - 1>>
     ELSE IF g <= 18 THEN <<k - 1, g - 10>>
     ELSE <<((g - 19) \div 3) * 3 + ((k - 1) \div 3),
            ((g - 19) % 3) * 3 + ((k - 1) % 3)>>]]

\* The 81 cells in row-major order.
AllCells == [k \in 1..81 |-> <<(k - 1) \div 9, (k - 1) % 9>>]

At(board, cell) == board[cell[1]][cell[2]]

\* The numbers of the nine cells of a group, in scan order.
GroupNums(board, cells) ==
  <<At(board, cells[1]), At(board, cells[2]), At(board, cells[3]),
    At(board, cells[4]), At(board, cells[5]), At(board, cells[6]),
    At(board, cells[7]), At(board, cells[8]), At(board, cells[9])>>

\* Check if the board is completely filled.
isBoardFilled(board) ==
  \A row \in Idx : \A col \in Idx : board[row][col] # 0

\* Check if the current board state is valid: in no group does a non-zero
\* number occur that was seen earlier in the group.
NoneSeenTwice(nums) ==
  \A k \in 1..9 : nums[k] = 0 \/ \A m \in 1..(k - 1) : nums[m] # nums[k]

\* A faulty isBoardValid: the boxes are not checked.
isBoardValidNoBoxes(board) ==
  \A g \in 1..18 : NoneSeenTwice(GroupNums(board, Groups[g]))

isBoardValid(board) ==
  \A g \in 1..27 : NoneSeenTwice(GroupNums(board, Groups[g]))

\* A faulty Pushes: the cell is paired with the first earlier cell of the
\* group holding the number, as if seen were set only once.
PushesFirstSeen(nums, cells, k) ==
  IF nums[k] = 0 THEN <<>>
  ELSE IF \A m \in 1..(k - 1) : nums[m] # nums[k]
       THEN <<>>
       ELSE <<cells[k],
              cells[CHOOSE m \in 1..(k - 1) :
                      /\ nums[m] = nums[k]
                      /\ \A q \in 1..(m - 1) : nums[q] # nums[k]]>>

\* What the k-th cell of a group pushes onto `invalid`: nothing if it is 0
\* or its number was not seen, else the cell and the cell seen.get(num),
\* which is the last earlier cell of the group holding the number.
Pushes(nums, cells, k) ==
  IF nums[k] = 0 THEN <<>>
  ELSE IF \A m \in 1..(k - 1) : nums[m] # nums[k]
       THEN <<>>
       ELSE <<cells[k],
              cells[CHOOSE m \in 1..(k - 1) :
                      /\ nums[m] = nums[k]
                      /\ \A q \in (m + 1)..(k - 1) : nums[q] # nums[k]]>>

PushesOf(nums, cells) ==
  Pushes(nums, cells, 1) \o Pushes(nums, cells, 2) \o
  Pushes(nums, cells, 3) \o Pushes(nums, cells, 4) \o
  Pushes(nums, cells, 5) \o Pushes(nums, cells, 6) \o
  Pushes(nums, cells, 7) \o Pushes(nums, cells, 8) \o
  Pushes(nums, cells, 9)

GroupPushes(board, cells) == PushesOf(GroupNums(board, cells), cells)

RECURSIVE PushesFrom(_, _)
PushesFrom(board, g) ==
  IF g > 27 THEN <<>>
  ELSE GroupPushes(board, Groups[g]) \o PushesFrom(board, g + 1)

\* Highlight invalid cells: the list handed to setInvalidCells.
highlightInvalidCells(board) == PushesFrom(board, 1)

(***************************************************************************)
(* The hint.                                                               *)
(***************************************************************************)
\* The cells of gameBoard that are empty or differ from solvedBoard, in
\* row-major order.
emptyOrIncorrectCells(board, solvedBoard) ==
  LET Wrong(cell) == \/ At(board, cell) = 0
                     \/ At(board, cell) # At(solvedBoard, cell)
  IN  SelectSeq(AllCells, Wrong)

(***************************************************************************)
(* The session: the component's state and its handlers.  An action is a    *)
(* control of the page together with the handler it calls: where the page  *)
(* does not render the control, invoking the operation changes nothing.    *)
(***************************************************************************)
NoCall == [op |-> "none"]
NoUse == [seed |-> 0, hints |-> 0, edits |-> 0]

\* generateSolvedBoard() from the random state of each seed, computed once.
Solved == [s \in 0..(NumSeeds - 1) |-> generateSolvedBoard(SeedValue(s))]

\* startNewGame's solvedBoard and playableBoard for each seed and difficulty.
Puzzles ==
  [s \in 0..(NumSeeds - 1) |-> [d \in Difficulties |->
     createPlayableBoard(Solved[s].board, d, Solved[s].rng).board]]

Init ==
  /\ selectedCell = Null
  /\ gameBoard = <<>>
  /\ originalBoard = <<>>
  /\ completed = FALSE
  /\ difficulty = "medium"
  /\ gameStarted = FALSE
  /\ timer = 0
  /\ timerRunning = FALSE
  /\ invalidCells = <<>>
  /\ call = NoCall
  /\ used = NoUse

\* The difficulty <select>, disabled while a game is in progress.
SetDifficulty ==
  /\ ~(gameStarted /\ ~completed)
  /\ \E d \in Difficulties : difficulty' = d
  /\ call' = [op |-> "setDifficulty"]
  /\ UNCHANGED <<selectedCell, gameBoard, originalBoard, completed,
                 gameStarted, timer, timerRunning, invalidCells, used>>

\* Start a new game; the button is always rendered.
startNewGame ==
  \E s \in 0..(NumSeeds - 1) :
     /\ gameBoard' = Puzzles[s][difficulty]
     /\ originalBoard' = Puzzles[s][difficulty]
     /\ selectedCell' = Null
     /\ completed' = FALSE
     /\ timer' = 0
     /\ timerRunning' = TRUE
     /\ gameStarted' = TRUE
     /\ invalidCells' = <<>>
     /\ call' = [op |-> "startNewGame"]
     /\ used' = [seed |-> s, hints |-> 0, edits |-> 0]
     /\ UNCHANGED difficulty

\* The cells the player clicks: the first MaxClick editable cells and the
\* first MaxClick given cells of the puzzle.
ClickCells(original) ==
  LET Editable(cell) == At(original, cell) = 0
      Given(cell) == At(original, cell) # 0
      ed == SelectSeq(AllCells, Editable)
      gv == SelectSeq(AllCells, Given)
  IN  {ed[k] : k \in 1..MaxClick} \cup {gv[k] : k \in 1..MaxClick}

\* Handle cell selection; the board is rendered once a game has started.
handleCellSelect ==
  /\ gameStarted
  /\ \E cell \in ClickCells(originalBoard) :
       /\ selectedCell' = IF At(originalBoard, cell) # 0 THEN selectedCell
                          ELSE cell
       /\ call' = [op |-> "handleCellSelect", cell |-> cell]
  /\ UNCHANGED <<gameBoard, originalBoard, completed, difficulty,
                 gameStarted, timer, timerRunning, invalidCells, used>>

\* The number pad is rendered when a game has started and a cell is selected.
NumberPadRendered == gameStarted /\ selectedCell # Null

\* A faulty Toggle: the number is written whatever the cell holds.
ToggleNever(current, num) == num

\* num === newBoard[row][col] ? 0 : num
Toggle(current, num) == IF num = current THEN 0 ELSE num

\* A faulty AfterWrite: a filled board completes the game, valid or not.
AfterWriteNoValidity(newBoard) ==
  /\ gameBoard' = newBoard
  /\ IF isBoardFilled(newBoard)
     THEN completed' = TRUE /\ timerRunning' = FALSE
     ELSE UNCHANGED <<completed, timerRunning>>
  /\ invalidCells' = highlightInvalidCells(newBoard)

\* A faulty AfterWrite: the invalid cells are not recomputed.
AfterWriteNoHighlight(newBoard) ==
  /\ gameBoard' = newBoard
  /\ IF isBoardFilled(newBoard) /\ isBoardValid(newBoard)
     THEN completed' = TRUE /\ timerRunning' = FALSE
     ELSE UNCHANGED <<completed, timerRunning>>
  /\ UNCHANGED invalidCells

\* What handleNumberInput and showHint do with the board they have written.
AfterWrite(newBoard) ==
  /\ gameBoard' = newBoard
  /\ IF isBoardFilled(newBoard) /\ isBoardValid(newBoard)
     THEN completed' = TRUE /\ timerRunning' = FALSE
     ELSE UNCHANGED <<completed, timerRunning>>
  /\ invalidCells' = highlightInvalidCells(newBoard)

\* The number pad buttons pressed.
PadNums ==
  (1..MaxPadNum) \cup
    (IF NumberPadRendered
     THEN {At(Solved[used.seed].board, selectedCell)} ELSE {})

\* Handle number input.
handleNumberInput ==
  \E num \in PadNums :
     /\ call' = [op |-> "handleNumberInput", num |-> num,
                 rendered |-> NumberPadRendered,
                 held |-> NumberPadRendered
                            /\ At(gameBoard, selectedCell) = num,
                 again |-> /\ NumberPadRendered
                           /\ call.op = "handleNumberInput"
                           /\ call.rendered
                           /\ call.num = num]
     /\ IF NumberPadRendered /\ selectedCell # Null
        THEN AfterWrite(SetCell(gameBoard, selectedCell[1], selectedCell[2],
                                Toggle(At(gameBoard, selectedCell), num)))
        ELSE UNCHANGED <<gameBoard, completed, timerRunning, invalidCells>>
     /\ UNCHANGED <<selectedCell, originalBoard, difficulty, gameStarted,
                    timer, used>>

\* A faulty HintButtonRendered: the button stays once a game has started.
HintButtonAlways == gameStarted

\* The Hint button is rendered while a game is in progress.
HintButtonRendered == gameStarted /\ ~completed

\* The seeds a hint may draw.
HintSeeds ==
  IF used.hints < MaxFreeHints THEN 0..(NumSeeds - 1) ELSE {used.seed}

\* The cell showHint picks among cells: randomIndex is the draw that follows
\* the draws of generateSolvedBoard.
HintCell(cells, rng) == cells[RandInt(NextRand(rng), Len(cells)) + 1]

\* Show hints (one cell).
showHint ==
  \E s \in HintSeeds :
  \E cells \in {IF HintButtonRendered /\ gameStarted
                THEN emptyOrIncorrectCells(gameBoard, Solved[s].board)
                ELSE <<>>} :
     /\ call' = [op |-> "showHint", rendered |-> HintButtonRendered,
                 cell |-> IF cells = <<>> THEN Null
                          ELSE HintCell(cells, Solved[s].rng)]
     /\ used' = [used EXCEPT !.hints =
                     IF HintButtonRendered /\ used.hints < MaxFreeHints
                     THEN used.hints + 1 ELSE used.hints]
     /\ IF cells # <<>>
        THEN \E cell \in {HintCell(cells, Solved[s].rng)} :
               AfterWrite(SetCell(gameBoard, cell[1], cell[2],
                                  At(Solved[s].board, cell)))
        ELSE UNCHANGED <<gameBoard, completed, timerRunning, invalidCells>>
     /\ UNCHANGED <<selectedCell, originalBoard, difficulty, gameStarted,
                    timer>>

\* The timer effect: while timerRunning, the interval adds a second.
TimerTick ==
  /\ timerRunning
  /\ timer < MaxTimer
  /\ timer' = timer + 1
  /\ call' = [op |-> "tick"]
  /\ UNCHANGED <<selectedCell, gameBoard, originalBoard, completed,
                 difficulty, gameStarted, timerRunning, invalidCells, used>>

Next ==
  \/ SetDifficulty
  \/ startNewGame
  \/ handleCellSelect
  \/ handleNumberInput
  \/ showHint
  \/ TimerTick

Spec == Init /\ [][Next]_vars

(***************************************************************************)
(* The generator and the carver run alone, on NumGenSeeds seeds.           *)
(***************************************************************************)
GenInit ==
  /\ selectedCell = Null
  /\ gameBoard = <<>>
  /\ originalBoard = <<>>
  /\ completed = FALSE
  /\ difficulty = "medium"
  /\ gameStarted = FALSE
  /\ timer = 0
  /\ timerRunning = FALSE
  /\ invalidCells = <<>>
  /\ call = NoCall
  /\ used = NoUse

\* generateSolvedBoard() from the random state of seed s.
GenGenerate ==
  /\ call = NoCall
  /\ \E s \in 0..(NumGenSeeds - 1) :
     \E g \in {generateSolvedBoard(SeedValue(s))} :
        call' = [op |-> "generateSolvedBoard", seeded |-> g.seeded,
                 board |-> g.board, ok |-> g.ok, done |-> g.done,
                 rng |-> g.rng]
  /\ UNCHANGED <<session, used>>

\* createPlayableBoard(solvedBoard, d) on the board just generated.
GenCarve ==
  /\ call.op = "generateSolvedBoard"
  /\ \E d \in Difficulties :
     \E p \in {createPlayableBoard(call.board, d, call.rng)} :
        call' = [op |-> "createPlayableBoard", solved |-> call.board,
                 difficulty |-> d, board |-> p.board]
  /\ UNCHANGED <<session, used>>

GenNext == GenGenerate \/ GenCarve

GenSpec == GenInit /\ [][GenNext]_vars

(***************************************************************************)
(* Properties of the generator and the carver.                             *)
(***************************************************************************)
\* Every row, every column and every 3x3 box of b holds each of 1..9.
IsSolvedGrid(b) ==
  /\ \A row \in Idx : {b[row][col] : col \in Idx} = 1..9
  /\ \A col \in Idx : {b[row][col] : row \in Idx} = 1..9
  /\ \A br \in 0..2 : \A bc \in 0..2 :
        {b[3 * br + i][3 * bc + j] : i \in 0..2, j \in 0..2} = 1..9

NonZeroCells(b) == {cell \in Cells : b[cell[1]][cell[2]] # 0}

\* C1: whatever the three diagonal boxes were seeded with,
\* generateSolvedBoard terminates, its solveBoard returns true, and the
\* board it returns has no 0 and each of 1..9 once in every row, column
\* and box (and still holds the seeded boxes).
C1_GeneratedIsSolved ==
  call.op = "generateSolvedBoard" =>
     /\ call.done
     /\ call.ok
     /\ IsSolvedGrid(call.board)
     /\ \A cell \in NonZeroCells(call.seeded) :
           At(call.board, cell) = At(call.seeded, cell)

\* A generated board whose seeding was shuffled and left 54 cells to solve.
C1_Witness ==
  /\ call.op = "generateSolvedBoard"
  /\ Cardinality(NonZeroCells(call.seeded)) = 27
  /\ <<call.seeded[0][0], call.seeded[0][1], call.seeded[0][2]>> # <<1, 2, 3>>
  /\ IsSolvedGrid(call.board)

\* C2: for a solved grid s and a difficulty with removal count 30, 40, 50
\* or 60, createPlayableBoard returns a grid with exactly 81 minus that
\* count non-zero cells, each equal to s there; every other cell is 0.
C2_CarvedCount ==
  call.op = "createPlayableBoard" =>
     LET count == CASE call.difficulty = "easy" -> 30
                    [] call.difficulty = "medium" -> 40
                    [] call.difficulty = "hard" -> 50
                    [] call.difficulty = "expert" -> 60
     IN  /\ IsSolvedGrid(call.solved)
         /\ Cardinality(NonZeroCells(call.board)) = 81 - count
         /\ \A cell \in Cells :
               At(call.board, cell) \in {0, At(call.solved, cell)}

\* An expert puzzle: 21 cells are left.
C2_Witness ==
  /\ call.op = "createPlayableBoard"
  /\ call.difficulty = "expert"
  /\ Cardinality(NonZeroCells(call.board)) = 21

(***************************************************************************)
(* The checks and the hint run alone, on edited boards.                    *)
(***************************************************************************)
\* The boards the edits start from: the empty board, the generated boards
\* and the puzzles carved from them.
CheckBoards ==
  {EmptyBoard} \cup {Solved[s].board : s \in 0..(NumSeeds - 1)}
    \cup {Puzzles[s][d] : s \in 0..(NumSeeds - 1), d \in Difficulties}

CheckInit ==
  /\ selectedCell = Null
  /\ gameBoard \in CheckBoards
  /\ originalBoard = <<>>
  /\ completed = FALSE
  /\ difficulty = "medium"
  /\ gameStarted = FALSE
  /\ timer = 0
  /\ timerRunning = FALSE
  /\ invalidCells = <<>>
  /\ call = NoCall
  /\ used = NoUse

Probing == call.op \in {"none", "edit"}

rest == <<selectedCell, originalBoard, completed, difficulty, gameStarted,
          timer, timerRunning, invalidCells>>

\* board[row][col] = num on the board under test.
CheckEdit ==
  /\ Probing
  /\ used.edits < MaxEdits
  /\ \E row \in 0..(EditSpan - 1), col \in 0..(EditSpan - 1),
        num \in 0..MaxEditNum :
        gameBoard' = SetCell(gameBoard, row, col, num)
  /\ call' = [op |-> "edit"]
  /\ used' = [used EXCEPT !.edits = used.edits + 1]
  /\ UNCHANGED rest

\* isBoardFilled, isBoardValid and highlightInvalidCells of the board.
CheckBoard ==
  /\ Probing
  /\ call' = [op |-> "check", filled |-> isBoardFilled(gameBoard),
              valid |-> isBoardValid(gameBoard),
              invalid |-> highlightInvalidCells(gameBoard)]
  /\ UNCHANGED <<gameBoard, used, rest>>

\* isValidPlacement(board, row, col, num) for a cell and each num = 1..9.
CheckPlacement ==
  /\ Probing
  /\ \E row \in 0..(EditSpan - 1), col \in 0..(EditSpan - 1) :
        call' = [op |-> "isValidPlacement", row |-> row, col |-> col,
                 result |-> [num \in 1..9 |->
                               isValidPlacement(gameBoard, row, col, num)]]
  /\ UNCHANGED <<gameBoard, used, rest>>

\* The hint of showHint on the board: the candidate cells against the
\* board generated from seed s, the cell picked, and the number written.
CheckHint ==
  /\ Probing
  /\ \E s \in 0..(NumSeeds - 1) :
     \E cells \in {emptyOrIncorrectCells(gameBoard, Solved[s].board)} :
        /\ call' = [op |-> "hint", seed |-> s,
                    cell |-> IF cells = <<>> THEN Null
                             ELSE HintCell(cells, Solved[s].rng)]
        /\ IF cells # <<>>
           THEN \E cell \in {HintCell(cells, Solved[s].rng)} :
                  gameBoard' = SetCell(gameBoard, cell[1], cell[2],
                                       At(Solved[s].board, cell))
           ELSE UNCHANGED gameBoard
  /\ UNCHANGED <<used, rest>>

CheckNext == CheckEdit \/ CheckBoard \/ CheckPlacement \/ CheckHint

CheckSpec == CheckInit /\ [][CheckNext]_vars

(***************************************************************************)
(* Properties of the session, the checks and the hint.                     *)
(***************************************************************************)
\* The other cells of the row, the column and the 3x3 box of a cell.
Peers ==
  [cell \in Cells |->
     {c \in Cells :
        /\ c # cell
        /\ \/ c[1] = cell[1]
           \/ c[2] = cell[2]
           \/ /\ c[1] \div 3 = cell[1] \div 3
              /\ c[2] \div 3 = cell[2] \div 3}]

\* b has no empty cell.
IsComplete(b) == \A cell \in Cells : At(b, cell) # 0

\* Two cells of one row, column or box of b hold the same non-zero number.
HasDuplicate(b) ==
  \E cell \in Cells :
     /\ At(b, cell) # 0
     /\ \E c \in Peers[cell] : At(b, c) = At(b, cell)

\* C3: once the game is completed, a number input changes neither the
\* board, nor the invalid cells, nor the completed flag; so whenever the
\* game is completed the board is complete and valid.
C3_CompletedRejectsInput ==
  [][/\ (completed /\ call'.op = "handleNumberInput")
          => UNCHANGED <<gameBoard, invalidCells, completed>>
     /\ completed' => IsComplete(gameBoard') /\ ~HasDuplicate(gameBoard')]_vars

\* C4: in a started game every given cell (originalBoard non-zero) holds in
\* gameBoard the number the puzzle gave it.
C4_GivenCellsKept ==
  gameStarted =>
     \A cell \in Cells :
        At(originalBoard, cell) # 0
          => At(gameBoard, cell) = At(originalBoard, cell)

C6_CompletedIffCompleteValid ==
  [][(/\ gameStarted /\ ~completed
      /\ \/ call'.op = "handleNumberInput" /\ call'.rendered
         \/ call'.op = "showHint" /\ call'.cell # Null)
       => /\ completed' <=> (IsComplete(gameBoard') /\ ~HasDuplicate(gameBoard'))
          /\ timerRunning' <=> ~completed']_vars

\* A number input has completed the game and stopped the timer.
C6_Witness ==
  /\ call.op = "handleNumberInput"
  /\ call.rendered
  /\ completed
  /\ ~timerRunning
  /\ IsComplete(gameBoard)

\* C7: isBoardValid(g) is true if and only if the list built by
\* highlightInvalidCells(g) is empty.
C7_ValidIffNoInvalidCells ==
  call.op = "check" => (call.valid <=> call.invalid = <<>>)

\* A board with a duplicate: not valid, and invalid cells listed.
C7_Witness ==
  /\ call.op = "check"
  /\ ~call.valid
  /\ call.invalid # <<>>
  /\ HasDuplicate(gameBoard)

\* C8 (as stated): isValidPlacement(g, r, c, v) is true if and only if no
\* cell other than (r, c) in row r, column c or the box of (r, c) holds v.
C8_IgnoresTarget ==
  call.op = "isValidPlacement" =>
     \A num \in 1..9 :
        call.result[num]
          <=> \A c \in Peers[<<call.row, call.col>>] : At(gameBoard, c) # num

\* C8 (amended): isValidPlacement(g, r, c, v) is true if and only if no cell
\* of row r, column c or the box of (r, c) holds v, the cell (r, c) itself
\* included.
C8_CountsTarget ==
  call.op = "isValidPlacement" =>
     \A num \in 1..9 :
        call.result[num]
          <=> /\ \A c \in Peers[<<call.row, call.col>>] : At(gameBoard, c) # num
              /\ At(gameBoard, <<call.row, call.col>>) # num

\* The cell (r, c) holds v, no other cell of its row, column or box does,
\* and isValidPlacement(g, r, c, v) is false.
C8_Witness ==
  /\ call.op = "isValidPlacement"
  /\ \E num \in 1..9 :
        /\ At(gameBoard, <<call.row, call.col>>) = num
        /\ \A c \in Peers[<<call.row, call.col>>] : At(gameBoard, c) # num
        /\ ~call.result[num]

\* C9 (as stated): two successive inputs of the same number on the selected
\* cell leave the cell empty.
C9_TwiceIsEmpty ==
  [][(/\ call.op = "handleNumberInput" /\ call.rendered
      /\ call'.op = "handleNumberInput" /\ call'.num = call.num)
       => At(gameBoard', selectedCell) = 0]_vars

\* C9 (amended): two successive inputs of the same number v on the selected
\* cell leave the cell empty if it did not hold v before the first of them,
\* and leave v in it if it did.
C9_TwiceIsEmptyUnlessHeld ==
  [][(/\ call.op = "handleNumberInput" /\ call.rendered
      /\ call'.op = "handleNumberInput" /\ call'.num = call.num)
       => At(gameBoard', selectedCell)
            = IF call.held THEN call.num ELSE 0]_vars

\* The second of two successive inputs of the same number has been handled
\* and the cell, which is not a given cell, holds the number.
C9_Witness ==
  /\ call.op = "handleNumberInput"
  /\ call.again
  /\ At(originalBoard, selectedCell) = 0
  /\ At(gameBoard, selectedCell) = call.num

\* C10: a hint request before a game has started or after it is completed
\* changes nothing.
C10_HintOnlyInProgress ==
  [][(call'.op = "showHint" /\ (~gameStarted \/ completed))
       => UNCHANGED session]_vars

\* A hint was requested in a completed game.
C10_Witness ==
  /\ call.op = "showHint"
  /\ ~call.rendered
  /\ gameStarted
  /\ completed

\* C11: in every state of a started game, whatever cells were selected,
\* numbers input, hints taken and seconds ticked, invalidCells is the list
\* highlightInvalidCells builds for the current gameBoard; right after
\* startNewGame it is empty.
C11_InvalidCellsCurrent ==
  gameStarted =>
     /\ invalidCells = highlightInvalidCells(gameBoard)
     /\ call.op = "startNewGame" => invalidCells = <<>>

\* A number input has left a duplicate on the board and invalid cells are
\* stored.
C11_Witness ==
  /\ gameStarted
  /\ call.op = "handleNumberInput"
  /\ call.rendered
  /\ HasDuplicate(gameBoard)
  /\ invalidCells # <<>>

\* The pairs of a list of invalid cells: its 1st and 2nd cell, its 3rd and
\* 4th, and so on, each pair unordered.
PairsOf(list) ==
  {{list[2 * i - 1], list[2 * i]} : i \in 1..(Len(list) \div 2)}

\* Every pair of distinct cells of b that share a row, a column or a box
\* and hold the same non-zero number.
ConflictPairs(b) ==
  UNION {{{a, c} : c \in {p \in Peers[a] : At(b, p) = At(b, a)}} :
           a \in {x \in Cells : At(b, x) # 0}}

\* The pairs of cells of a group of b that hold the same non-zero number
\* with no cell holding it between the two in the scan of the group.
NeighbourPairsIn(b, cells) ==
  UNION {{{cells[m], cells[k]} :
            m \in {x \in 1..(k - 1) :
                     /\ At(b, cells[x]) = At(b, cells[k])
                     /\ \A q \in (x + 1)..(k - 1) :
                           At(b, cells[q]) # At(b, cells[k])}} :
           k \in {y \in 1..9 : At(b, cells[y]) # 0}}

NeighbourPairs(b) == UNION {NeighbourPairsIn(b, Groups[g]) : g \in 1..27}

\* Three cells of one row, column or box of b hold the same non-zero number.
HasTriple(b) ==
  \E g \in 1..27 : \E k \in 1..9 :
     /\ At(b, Groups[g][k]) # 0
     /\ Cardinality({m \in 1..9 :
                       At(b, Groups[g][m]) = At(b, Groups[g][k])}) >= 3

\* C12 (as stated): the pairs highlightInvalidCells emits are exactly the
\* pairs of distinct cells that share a row, column or box and hold the
\* same non-zero number, all three pairs of three such cells included.
C12_EveryPair ==
  call.op = "check" => PairsOf(call.invalid) = ConflictPairs(gameBoard)

\* C12 (amended): highlightInvalidCells emits, for each group, each cell
\* with the last earlier cell of the group holding the same non-zero number
\* (two pairs, not three, for three such cells); so every pair emitted is a
\* pair of distinct cells sharing a group with equal non-zero numbers, and
\* every cell of such a pair is in the list.
C12_NeighbourPairs ==
  call.op = "check" =>
     /\ Len(call.invalid) % 2 = 0
     /\ PairsOf(call.invalid) = NeighbourPairs(gameBoard)
     /\ PairsOf(call.invalid) \subseteq ConflictPairs(gameBoard)
     /\ {call.invalid[i] : i \in 1..Len(call.invalid)}
          = UNION ConflictPairs(gameBoard)

\* Three cells of a group hold the same number and a pair of them is not
\* emitted.
C12_Witness ==
  /\ call.op = "check"
  /\ HasTriple(gameBoard)
  /\ PairsOf(call.invalid) # ConflictPairs(gameBoard)
  /\ PairsOf(call.invalid) \subseteq ConflictPairs(gameBoard)

====
